---- MODULE Spec2Model ----
(***************************************************************************)
(* State-machine model of PassList (src/main.py): the candidate            *)
(* enumerator, the smart mutator and the chunked multiprocessing driver.   *)
(*                                                                         *)
(* A Python str is modelled as a sequence of one-character strings, so     *)
(* that join, slicing, reversal and case conversion are computed           *)
(* character by character.                                                  *)
(***************************************************************************)
EXTENDS Integers, Sequences, FiniteSets, Bags

VARIABLES
    args,                \* the parsed command line (argparse namespace)
    file,                \* lines of the output file args.o
    pc,                  \* position of main(): start, error, loop, closing, done
    generator,           \* the PasswordGenerator object
    total_passwords,     \* main.total_passwords
    chunk_size,          \* main.chunk_size (the effective chunk size)
    num_chunks,          \* main.num_chunks
    next_task,           \* how many items of the chunks generator the pool has taken
    running,             \* chunk numbers being computed by pool workers
    results,             \* completed chunks waiting in imap_unordered, arrival order
    kill_now,            \* killer.kill_now
    passwords_generated, \* main.passwords_generated
    flushed,             \* history: the lists handed to save_passwords, in order
    received,            \* history: chunk numbers the for loop has received
    late,                \* history: chunk numbers completed after kill_now was set
    killed_at,           \* history: passwords_generated when the signal came, or -1
    word,                \* argument of generate_smart_mutations (mutator spec)
    mutations            \* its return value (mutator spec)

vars == <<args, file, pc, generator, total_passwords, chunk_size, num_chunks,
          next_task, running, results, kill_now, passwords_generated,
          flushed, received, late, killed_at, word, mutations>>

runvars == <<args, file, pc, generator, total_passwords, chunk_size, num_chunks,
             next_task, running, results, kill_now, passwords_generated,
             flushed, received, late, killed_at>>

----------------------------------------------------------------------------
(* Bounds of the model *)

MaxLen == 2          \* largest -min/-max drawn for custom charsets
MaxProcs == 2        \* largest --processes drawn
MaxChunks == 3       \* command lines are drawn so that num_chunks <= MaxChunks
MaxWordLen == 3      \* longest word handed to the mutator spec
MaxSmartTotal == 2   \* largest total of a --smart run

----------------------------------------------------------------------------
(* Python library: string constants and str methods *)

ascii_lowercase ==
    << "a","b","c","d","e","f","g","h","i","j","k","l","m",
       "n","o","p","q","r","s","t","u","v","w","x","y","z" >>

ascii_uppercase ==
    << "A","B","C","D","E","F","G","H","I","J","K","L","M",
       "N","O","P","Q","R","S","T","U","V","W","X","Y","Z" >>

digits == << "0","1","2","3","4","5","6","7","8","9" >>

\* the grave accent (0x60) is written "grave": the lexer has no literal for it
punctuation ==
    << "!","\"","#","$","%","&","'","(",")","*","+",",","-",".","/",":",
       ";","<","=",">","?","@","[","\\","]","^","_","grave","{","|","}","~" >>

Min(a, b) == IF a <= b THEN a ELSE b

RECURSIVE Pow(_, _)
Pow(b, e) == IF e = 0 THEN 1 ELSE b * Pow(b, e - 1)

RECURSIVE SumSeq(_)
SumSeq(s) == IF s = <<>> THEN 0 ELSE Head(s) + SumSeq(Tail(s))

RECURSIVE Concat(_)
Concat(ss) == IF ss = <<>> THEN <<>> ELSE Head(ss) \o Concat(Tail(ss))

\* range(a, b) as a sequence
Range(a, b) == [k \in 1..(IF b > a THEN b - a ELSE 0) |-> a + k - 1]

\* c.upper() and c.lower() of one ASCII character
CharUpper(c) ==
    IF \E i \in 1..Len(ascii_lowercase) : ascii_lowercase[i] = c
    THEN ascii_uppercase[CHOOSE i \in 1..Len(ascii_lowercase) : ascii_lowercase[i] = c]
    ELSE c

CharLower(c) ==
    IF \E i \in 1..Len(ascii_uppercase) : ascii_uppercase[i] = c
    THEN ascii_lowercase[CHOOSE i \in 1..Len(ascii_uppercase) : ascii_uppercase[i] = c]
    ELSE c

str_upper(s) == [i \in 1..Len(s) |-> CharUpper(s[i])]

str_lower(s) == [i \in 1..Len(s) |-> CharLower(s[i])]

\* mutant of str_capitalize: the characters after the first keep their case
str_capitalize_keep(s) ==
    IF s = <<>> THEN <<>> ELSE <<CharUpper(Head(s))>> \o Tail(s)

\* s.capitalize(): first character upper-cased, the rest lower-cased
str_capitalize(s) ==
    IF s = <<>> THEN <<>> ELSE <<CharUpper(Head(s))>> \o str_lower(Tail(s))

\* s[::-1]
str_reverse(s) == [i \in 1..Len(s) |-> s[Len(s) + 1 - i]]

\* str(n) for n >= 0: decimal digits, no padding
RECURSIVE str_int(_)
str_int(n) ==
    IF n < 10 THEN <<digits[n + 1]>>
    ELSE str_int(n \div 10) \o <<digits[(n % 10) + 1]>>

\* s.strip() for the whitespace the model draws (blank)
RECURSIVE str_lstrip(_)
str_lstrip(s) ==
    IF s # <<>> /\ Head(s) = " " THEN str_lstrip(Tail(s)) ELSE s

str_strip(s) == str_reverse(str_lstrip(str_reverse(str_lstrip(s))))

\* s.split(',')
RECURSIVE str_split(_, _)
str_split(s, cur) ==
    IF s = <<>> THEN <<cur>>
    ELSE IF Head(s) = "," THEN <<cur>> \o str_split(Tail(s), <<>>)
    ELSE str_split(Tail(s), Append(cur, Head(s)))

\* iterating a str yields its one-character strings
Chars(s) == [i \in 1..Len(s) |-> <<s[i]>>]

\* ''.join(p) for p in itertools.product(*parts): the last part cycles fastest
RECURSIVE product_join(_)
product_join(parts) ==
    IF parts = <<>> THEN << <<>> >>
    ELSE LET rest == product_join(Tail(parts))
             first == Head(parts)
             R == Len(rest)
         IN  [k \in 1..(Len(first) * R) |->
                 first[((k - 1) \div R) + 1] \o rest[((k - 1) % R) + 1]]

\* itertools.islice(seq, start, stop)
islice(seq, start, stop) ==
    [k \in 1..(IF Min(stop, Len(seq)) > start THEN Min(stop, Len(seq)) - start ELSE 0)
        |-> seq[start + k]]

----------------------------------------------------------------------------
(* PasswordGenerator *)

PasswordGenerator(min_length, max_length, charset, patterns, common_words) ==
    [min_length |-> min_length, max_length |-> max_length, charset |-> charset,
     patterns |-> patterns, common_words |-> common_words]

\* the alphabet one pattern character resolves to
pattern_part(g, char) ==
    IF char = "l" THEN Chars(ascii_lowercase)
    ELSE IF char = "u" THEN Chars(ascii_uppercase)
    ELSE IF char = "d" THEN Chars(digits)
    ELSE IF char = "s" THEN Chars(punctuation)
    ELSE IF char = "w" /\ g.common_words # <<>> THEN g.common_words
    ELSE Chars(g.charset)

generate_password_from_pattern(g, pattern) ==
    product_join([i \in 1..Len(pattern) |-> pattern_part(g, pattern[i])])

generate_passwords(g) ==
    IF g.patterns # <<>>
    THEN Concat([i \in 1..Len(g.patterns) |->
                    generate_password_from_pattern(g, g.patterns[i])])
    ELSE LET lengths == Range(g.min_length, g.max_length + 1)
         IN  Concat([i \in 1..Len(lengths) |->
                        product_join([j \in 1..lengths[i] |-> Chars(g.charset)])])

\* randint is the value of random.randint(0, 9999); keep[i] is the outcome of
\* random.random() > 0.3 for character i
generate_smart_mutations(w, randint, keep) ==
    << w,
       str_capitalize(w),
       str_upper(w),
       str_lower(w),
       str_reverse(w),
       w \o str_int(randint),
       [i \in 1..Len(w) |-> IF keep[i] THEN w[i] ELSE CharUpper(w[i])] >>

\* mutant of generate_passwords_chunk: the slice stops one candidate early
generate_passwords_chunk_short(g, size, chunk_number) ==
    islice(generate_passwords(g), chunk_number * size, (chunk_number + 1) * size - 1)

\* mutant of generate_passwords_chunk: the slice is shifted by one candidate
generate_passwords_chunk_skew(g, size, chunk_number) ==
    islice(generate_passwords(g), chunk_number * size + 1, (chunk_number + 1) * size + 1)

generate_passwords_chunk(g, size, chunk_number) ==
    islice(generate_passwords(g), chunk_number * size, (chunk_number + 1) * size)

\* mutant of save_passwords: mode 'w' whatever append says
save_passwords_truncate(old, passwords, append) == passwords

\* mutant of save_passwords: mode 'a' whatever append says
save_passwords_append(old, passwords, append) == old \o passwords

\* the file after save_passwords(passwords, output_file, append)
save_passwords(old, passwords, append) ==
    IF append THEN old \o passwords ELSE passwords

\* mutant of estimate_total_passwords: range(min_length, max_length)
estimate_total_passwords_exclusive(g) ==
    IF g.patterns # <<>>
    THEN SumSeq([i \in 1..Len(g.patterns) |->
                    Len(generate_password_from_pattern(g, g.patterns[i]))])
    ELSE LET lengths == Range(g.min_length, g.max_length)
         IN  SumSeq([i \in 1..Len(lengths) |-> Pow(Len(g.charset), lengths[i])])

estimate_total_passwords(g) ==
    IF g.patterns # <<>>
    THEN SumSeq([i \in 1..Len(g.patterns) |->
                    Len(generate_password_from_pattern(g, g.patterns[i]))])
    ELSE LET lengths == Range(g.min_length, g.max_length + 1)
         IN  SumSeq([i \in 1..Len(lengths) |-> Pow(Len(g.charset), lengths[i])])

----------------------------------------------------------------------------
(* main(): from the command line to the generator and the chunk plan *)

\* lines 110-120
Charset(a) ==
    (IF a.l THEN ascii_lowercase ELSE <<>>)
    \o (IF a.u THEN ascii_uppercase ELSE <<>>)
    \o (IF a.d THEN digits ELSE <<>>)
    \o (IF a.s THEN punctuation ELSE <<>>)
    \o a.c

\* lines 128-135: a.w.given is "-w was passed", a.w.exists is os.path.exists
CommonWords(a) ==
    IF a.w.given /\ a.w.exists
    THEN [i \in 1..Len(a.w.lines) |-> str_strip(a.w.lines[i])]
    ELSE <<>>

\* line 137; None is modelled as the empty list (both are falsy)
Patterns(a) == IF a.p # <<>> THEN str_split(a.p, <<>>) ELSE <<>>

\* line 145
Generator(a) ==
    PasswordGenerator(a.min, a.max, Charset(a), Patterns(a), CommonWords(a))

\* line 154
EffectiveChunkSize(requested, total) == Min(requested, total)

\* mutant of NumChunks: floor instead of ceiling
NumChunksFloor(total, size) == total \div size

\* line 155
NumChunks(total, size) == (total + size - 1) \div size

----------------------------------------------------------------------------
(* The command lines and output files the model draws *)

NoWords == [given |-> FALSE, exists |-> FALSE, lines |-> <<>>]

MissingWords == [given |-> TRUE, exists |-> FALSE, lines |-> << <<"a">> >>]

WordFiles ==
    { [given |-> TRUE, exists |-> TRUE, lines |-> ls] :
        ls \in { << <<"a">>, <<"a", "a", " ">> >>,
                 << <<"x">>, <<" ", "y">> >>,
                 <<>> } }

BaseArgs ==
    [l |-> FALSE, u |-> FALSE, d |-> FALSE, s |-> FALSE, c |-> <<>>,
     w |-> NoWords, p |-> <<>>, min |-> 1, max |-> 1, smart |-> FALSE,
     processes |-> 1, chunk_size |-> 1000000]

CustomCharsets == { <<"a", "b">>, <<"a", "a">>, <<"a", "B">> }

RequestedChunkSizes == 1..(MaxChunks + 1) \cup {100, 300, 1000000}

\* -c runs in length-range mode
CustomArgs ==
    { [BaseArgs EXCEPT !.c = c, !.min = lo, !.max = hi] :
        c \in CustomCharsets, lo \in 0..MaxLen, hi \in 0..MaxLen }

\* class-flag runs in length-range mode, with the real alphabets
FlagArgs ==
    { [BaseArgs EXCEPT !.l = TRUE, !.max = 2],
      [BaseArgs EXCEPT !.d = TRUE],
      [BaseArgs EXCEPT !.u = TRUE, !.c = <<"A">>],
      [BaseArgs EXCEPT !.d = TRUE, !.s = TRUE],
      BaseArgs }

PatternStrings ==
    { <<"l", "d">>, <<"l", ",", "l">>, <<"w">>, <<"w", "x">>, <<"w", "w">>,
      <<"x", ",">> }

\* -p runs; the charset is -c ab
PatternArgs ==
    { [BaseArgs EXCEPT !.c = <<"a", "b">>, !.p = p, !.w = w] :
        p \in PatternStrings, w \in WordFiles \cup {NoWords, MissingWords} }

PlanOf(a) ==
    LET total == estimate_total_passwords(Generator(a))
        size == EffectiveChunkSize(a.chunk_size, total)
    IN  [total |-> total, size |-> size,
         chunks |-> IF total = 0 THEN 0 ELSE NumChunks(total, size)]

Rejected(a) == Charset(a) = <<>> \/ a.min > a.max

ArgsSet ==
    { a \in { [b EXCEPT !.processes = n, !.chunk_size = k, !.smart = sm] :
                b \in CustomArgs \cup FlagArgs \cup PatternArgs,
                n \in 1..MaxProcs, k \in RequestedChunkSizes, sm \in BOOLEAN } :
        \/ Rejected(a) /\ a.processes = 1 /\ a.chunk_size = 1 /\ ~a.smart
        \/ /\ ~Rejected(a)
           /\ PlanOf(a).chunks <= MaxChunks
           /\ a.smart => PlanOf(a).total <= MaxSmartTotal
           /\ a.chunk_size >= 100 => a.chunk_size < 2 * PlanOf(a).total
                                     \/ a.chunk_size = 1000000 }

\* the output file before the run: absent/empty, or left by an earlier run
OldFiles == { <<>>, << <<"o", "l", "d">> >> }

\* the values random.randint(0, 9999) is drawn from in the model
RandSample == {0, 9999}

Mutations(w) ==
    { generate_smart_mutations(w, r, keep) :
        r \in RandSample, keep \in [1..Len(w) -> BOOLEAN] }

\* lines 171-174: every list smart_passwords can become
RECURSIVE SmartLists(_)
SmartLists(passwords) ==
    IF passwords = <<>> THEN { <<>> }
    ELSE { m \o rest : m \in Mutations(Head(passwords)),
                       rest \in SmartLists(Tail(passwords)) }

----------------------------------------------------------------------------
(* The run *)

Init ==
    /\ args \in ArgsSet
    /\ file \in OldFiles
    /\ pc = "start"
    /\ generator = PasswordGenerator(0, 0, <<>>, <<>>, <<>>)
    /\ total_passwords = 0
    /\ chunk_size = 0
    /\ num_chunks = 0
    /\ next_task = 0
    /\ running = {}
    /\ results = <<>>
    /\ kill_now = FALSE
    /\ passwords_generated = 0
    /\ flushed = <<>>
    /\ received = {}
    /\ late = {}
    /\ killed_at = -1
    /\ word = <<>>
    /\ mutations = <<>>

\* main, lines 101-163: validation, the generator, the estimate, the chunk plan,
\* the signal handlers and the pool
Setup ==
    /\ pc = "start"
    /\ LET g == Generator(args)
           total == estimate_total_passwords(g)
           size == EffectiveChunkSize(args.chunk_size, total)
       IN  IF Charset(args) = <<>> \/ args.min > args.max
           THEN /\ pc' = "error"
                /\ UNCHANGED <<generator, total_passwords, chunk_size, num_chunks>>
           ELSE IF total = 0
           THEN /\ pc' = "error"
                /\ generator' = g
                /\ total_passwords' = total
                /\ UNCHANGED <<chunk_size, num_chunks>>
           ELSE /\ pc' = "loop"
                /\ generator' = g
                /\ total_passwords' = total
                /\ chunk_size' = size
                /\ num_chunks' = NumChunks(total, size)
    /\ UNCHANGED <<args, file, next_task, running, results, kill_now,
                   passwords_generated, flushed, received, late, killed_at,
                   word, mutations>>

\* the pool hands the next item of the chunks generator (line 162) to an idle worker
TakeTask ==
    /\ pc \in {"loop", "closing"}
    /\ next_task < num_chunks
    /\ Cardinality(running) < args.processes
    /\ running' = running \cup {next_task}
    /\ next_task' = next_task + 1
    /\ UNCHANGED <<args, file, pc, generator, total_passwords, chunk_size,
                   num_chunks, results, kill_now, passwords_generated, flushed,
                   received, late, killed_at, word, mutations>>

\* a worker returns from generate_passwords_chunk; imap_unordered queues the result
Complete(i) ==
    /\ pc \in {"loop", "closing"}
    /\ i \in running
    /\ running' = running \ {i}
    /\ results' = Append(results,
                    [chunk |-> i,
                     passwords |-> generate_passwords_chunk(generator, chunk_size, i)])
    /\ late' = IF kill_now THEN late \cup {i} ELSE late
    /\ UNCHANGED <<args, file, pc, generator, total_passwords, chunk_size,
                   num_chunks, next_task, kill_now, passwords_generated, flushed,
                   received, killed_at, word, mutations>>

\* SIGINT or SIGTERM: GracefulKiller.exit_gracefully, lines 20-21
Signal ==
    /\ pc \in {"loop", "closing"}
    /\ ~kill_now
    /\ kill_now' = TRUE
    /\ killed_at' = passwords_generated
    /\ UNCHANGED <<args, file, pc, generator, total_passwords, chunk_size,
                   num_chunks, next_task, running, results, passwords_generated,
                   flushed, received, late, word, mutations>>

\* one iteration of the for loop, lines 166-177
Consume ==
    /\ pc = "loop"
    /\ results # <<>>
    /\ LET r == Head(results)
       IN  /\ results' = Tail(results)
           /\ received' = received \cup {r.chunk}
           /\ IF kill_now
              THEN /\ pc' = "closing"
                   /\ UNCHANGED <<file, passwords_generated, flushed>>
              ELSE /\ \E passwords \in
                          (IF args.smart THEN SmartLists(r.passwords)
                                         ELSE {r.passwords}) :
                        /\ file' = save_passwords(file, passwords,
                                                  passwords_generated > 0)
                        /\ passwords_generated' = passwords_generated + Len(passwords)
                        /\ flushed' = Append(flushed,
                                        [chunk |-> r.chunk, passwords |-> passwords])
                   /\ pc' = pc
    /\ UNCHANGED <<args, generator, total_passwords, chunk_size, num_chunks,
                   next_task, running, kill_now, late, killed_at, word, mutations>>

\* the for loop ends: imap_unordered has yielded every chunk
LoopEnd ==
    /\ pc = "loop"
    /\ Cardinality(received) = num_chunks
    /\ pc' = "closing"
    /\ UNCHANGED <<args, file, generator, total_passwords, chunk_size, num_chunks,
                   next_task, running, results, kill_now, passwords_generated,
                   flushed, received, late, killed_at, word, mutations>>

\* pool.close(); pool.join(), lines 181-182: returns once every task has run
Join ==
    /\ pc = "closing"
    /\ next_task = num_chunks
    /\ running = {}
    /\ pc' = "done"
    /\ UNCHANGED <<args, file, generator, total_passwords, chunk_size, num_chunks,
                   next_task, running, results, kill_now, passwords_generated,
                   flushed, received, late, killed_at, word, mutations>>

Next ==
    \/ Setup
    \/ TakeTask
    \/ \E i \in 0..(MaxChunks - 1) : Complete(i)
    \/ Signal
    \/ Consume
    \/ LoopEnd
    \/ Join

Spec == Init /\ [][Next]_vars

----------------------------------------------------------------------------
(* The mutator on its own: generate_smart_mutations applied to one word *)

MutatorChars == {"a", "B", "1"}

Words == UNION { [1..n -> MutatorChars] : n \in 0..MaxWordLen }

MutatorInit ==
    /\ args = BaseArgs
    /\ file = <<>>
    /\ pc = "start"
    /\ generator = PasswordGenerator(0, 0, <<>>, <<>>, <<>>)
    /\ total_passwords = 0
    /\ chunk_size = 0
    /\ num_chunks = 0
    /\ next_task = 0
    /\ running = {}
    /\ results = <<>>
    /\ kill_now = FALSE
    /\ passwords_generated = 0
    /\ flushed = <<>>
    /\ received = {}
    /\ late = {}
    /\ killed_at = -1
    /\ word \in Words
    /\ mutations = <<>>

\* one call of generator.generate_smart_mutations(word), line 173
Mutate ==
    /\ mutations = <<>>
    /\ \E r \in RandSample, keep \in [1..Len(word) -> BOOLEAN] :
          mutations' = generate_smart_mutations(word, r, keep)
    /\ UNCHANGED <<word, runvars>>

MutatorNext == Mutate

MutatorSpec == MutatorInit /\ [][MutatorNext]_vars

----------------------------------------------------------------------------
(* Vocabulary of the properties *)

MutationsPerWord == 7

Planned == pc \in {"loop", "closing", "done"}

\* the global enumeration of the run's generator
Enum == generate_passwords(generator)

ChunkLo(i) == i * chunk_size

ChunkHi(i) == Min((i + 1) * chunk_size, total_passwords)

ChunkNumbers == 0..(num_chunks - 1)

BagOf(seq) ==
    [x \in {seq[i] : i \in 1..Len(seq)} |->
        Cardinality({i \in 1..Len(seq) : seq[i] = x})]

FlushedLines == Concat([k \in 1..Len(flushed) |-> flushed[k].passwords])

FlushedChunks == {flushed[k].chunk : k \in 1..Len(flushed)}

\* the candidate each written line derives from: the line itself, or under
\* --smart the first entry of each group of mutations
BaseLines(lines) ==
    IF args.smart
    THEN [k \in 1..(Len(lines) \div MutationsPerWord) |->
             lines[(k - 1) * MutationsPerWord + 1]]
    ELSE lines

LinesPerCandidate == IF args.smart THEN MutationsPerWord ELSE 1

RECURSIVE SumPowers(_, _, _)
SumPowers(n, lo, hi) ==
    IF lo > hi THEN 0 ELSE Pow(n, lo) + SumPowers(n, lo + 1, hi)

RECURSIVE AlphabetProduct(_, _)
AlphabetProduct(g, pattern) ==
    IF pattern = <<>> THEN 1
    ELSE Len(pattern_part(g, Head(pattern))) * AlphabetProduct(g, Tail(pattern))

\* position of the first occurrence of a symbol in the charset
SymbolRank(c) ==
    CHOOSE i \in 1..Len(generator.charset) : generator.charset[i] = c

\* x comes strictly before y: shorter first, then lexicographic by symbol rank
StrictlyBefore(x, y) ==
    \/ Len(x) < Len(y)
    \/ /\ Len(x) = Len(y)
       /\ \E i \in 1..Len(x) :
             /\ \A j \in 1..(i - 1) : x[j] = y[j]
             /\ SymbolRank(x[i]) < SymbolRank(y[i])

HasWordToken(a) ==
    \E i \in 1..Len(Patterns(a)) :
        \E j \in 1..Len(Patterns(a)[i]) : Patterns(a)[i][j] = "w"

----------------------------------------------------------------------------
(* Properties *)

\* C1: the index ranges [i*chunk_size, min((i+1)*chunk_size, total)) of the
\* chunks i in [0, num_chunks) partition [0, total): every index lies in exactly
\* one chunk, no chunk is empty, and generate_passwords_chunk returns as many
\* candidates as its range holds.
C1_ChunksPartition ==
    Planned =>
        /\ \A k \in 0..(total_passwords - 1) :
              Cardinality({i \in ChunkNumbers : ChunkLo(i) <= k /\ k < ChunkHi(i)}) = 1
        /\ \A i \in ChunkNumbers :
              /\ ChunkLo(i) < ChunkHi(i)
              /\ Len(generate_passwords_chunk(generator, chunk_size, i))
                    = ChunkHi(i) - ChunkLo(i)

C1_Witness ==
    /\ Planned
    /\ num_chunks >= 3
    /\ total_passwords % chunk_size # 0
    /\ args.chunk_size < total_passwords

C3_EstimateIsCount ==
    Planned =>
        /\ total_passwords = Len(Enum)
        /\ generator.patterns = <<>> =>
              total_passwords = SumPowers(Len(generator.charset),
                                          generator.min_length, generator.max_length)
        /\ generator.patterns # <<>> =>
              total_passwords =
                  SumSeq([i \in 1..Len(generator.patterns) |->
                             AlphabetProduct(generator, generator.patterns[i])])

C3_Witness ==
    /\ Planned
    /\ generator.patterns = <<>>
    /\ generator.min_length < generator.max_length
    /\ Len(generator.charset) >= 2

\* C4: the enumeration never repeats a candidate; in length-range mode every
\* candidate comes strictly before its successor (shorter first, then
\* lexicographic by charset position, rightmost position fastest).
C4_StrictTotalOrder ==
    Planned =>
        LET e == Enum
        IN  /\ \A i, j \in 1..Len(e) : i < j => e[i] # e[j]
            /\ generator.patterns = <<>> =>
                  \A i \in 1..(Len(e) - 1) : StrictlyBefore(e[i], e[i + 1])

\* C5 as stated: after a cancellation raised once the first chunk was written,
\* the written count is a multiple of the chunk size and at least one chunk.
C5_MultipleOfChunkSize ==
    (pc = "done" /\ killed_at > 0) =>
        /\ passwords_generated % chunk_size = 0
        /\ passwords_generated >= chunk_size

\* C5 amended: after a cancellation raised once the first chunk was written, the
\* written count is the summed size of the whole chunks written: a multiple of
\* the chunk size, plus the size of the short final chunk when it is among them
\* (times 7 under --smart); at least one whole chunk is written and none partially.
C5_WholeChunks ==
    (pc = "done" /\ killed_at > 0) =>
        LET short == total_passwords % chunk_size
            per == LinesPerCandidate
            e == Enum
        IN  /\ \E k \in 0..num_chunks :
                  \/ passwords_generated = per * k * chunk_size
                  \/ /\ short > 0
                     /\ passwords_generated = per * (k * chunk_size + short)
            /\ flushed # <<>>
            /\ \A k \in 1..Len(flushed) :
                  LET lo == ChunkLo(flushed[k].chunk)
                      n == ChunkHi(flushed[k].chunk) - lo
                  IN  /\ Len(flushed[k].passwords) = per * n
                      /\ BaseLines(flushed[k].passwords) = [j \in 1..n |-> e[lo + j]]
            /\ passwords_generated = Len(FlushedLines)
            /\ file = FlushedLines

C5_Witness ==
    /\ pc = "done"
    /\ killed_at > 0
    /\ passwords_generated % chunk_size # 0
    /\ passwords_generated < total_passwords

\* C6: a chunk that a worker completed after the cancellation was requested and
\* that the for loop received is in the output file when the run has stopped.
C6_LateChunkFlushed ==
    pc = "done" => \A i \in received \cap late : i \in FlushedChunks

\* C7: a pattern with the token w and no loaded word list is rejected before
\* any enumeration, with nothing written.
C7_WordTokenRejected ==
    (pc # "start" /\ HasWordToken(args) /\ CommonWords(args) = <<>>) =>
        /\ pc = "error"
        /\ passwords_generated = 0
        /\ flushed = <<>>

\* C8 as stated: 7 entries; the word; the word with its first character
\* upper-cased and the other characters untouched; upper; lower; reversed.
C8_FirstUpperRestUntouched ==
    mutations # <<>> =>
        /\ Len(mutations) = MutationsPerWord
        /\ mutations[1] = word
        /\ Len(mutations[2]) = Len(word)
        /\ \A i \in 1..Len(word) :
              mutations[2][i] = IF i = 1 THEN CharUpper(word[i]) ELSE word[i]
        /\ mutations[3] = [i \in 1..Len(word) |-> CharUpper(word[i])]
        /\ mutations[4] = [i \in 1..Len(word) |-> CharLower(word[i])]
        /\ mutations[5] = [i \in 1..Len(word) |-> word[Len(word) - i + 1]]

\* C8 amended: 7 entries; the word; the word with its first character
\* upper-cased and every other character lower-cased; upper; lower; reversed.
C8_FirstUpperRestLower ==
    mutations # <<>> =>
        /\ Len(mutations) = MutationsPerWord
        /\ mutations[1] = word
        /\ Len(mutations[2]) = Len(word)
        /\ \A i \in 1..Len(word) :
              mutations[2][i] = IF i = 1 THEN CharUpper(word[i]) ELSE CharLower(word[i])
        /\ mutations[3] = [i \in 1..Len(word) |-> CharUpper(word[i])]
        /\ mutations[4] = [i \in 1..Len(word) |-> CharLower(word[i])]
        /\ mutations[5] = [i \in 1..Len(word) |-> word[Len(word) - i + 1]]

C8_Witness ==
    /\ mutations # <<>>
    /\ Len(word) >= 2
    /\ word[1] = "a"
    /\ word[2] = "B"

\* C9: every chunk a worker returns lists the candidates of its index range in
\* enumeration order, whatever order the chunks arrive in; with a single chunk
\* the written lines follow the enumeration order exactly.
C9_ChunkOrder ==
    Planned =>
        LET e == Enum
        IN  /\ \A k \in 1..Len(results) :
                  LET r == results[k]
                      n == ChunkHi(r.chunk) - ChunkLo(r.chunk)
                  IN  r.passwords = [j \in 1..n |-> e[ChunkLo(r.chunk) + j]]
            /\ (num_chunks = 1 /\ flushed # <<>>) => BaseLines(file) = e

C9_Witness ==
    /\ Len(results) >= 2
    /\ results[1].chunk > results[2].chunk
    /\ Len(results[2].passwords) >= 2

C9_SingleChunkWitness ==
    /\ num_chunks = 1
    /\ flushed # <<>>
    /\ Len(Enum) >= 2

\* C10: the first flush creates the file and every later flush appends: after
\* each flush the file is the concatenation of the lists flushed so far, in
\* arrival order, and has passwords_generated lines; before the first flush the
\* file is untouched.
C10_FileIsFlushedChunks ==
    /\ flushed # <<>> =>
          /\ file = FlushedLines
          /\ Len(file) = passwords_generated
    /\ flushed = <<>> =>
          /\ passwords_generated = 0
          /\ file \in OldFiles

C10_Witness ==
    /\ Len(flushed) >= 2
    /\ flushed[1].chunk > flushed[2].chunk
    /\ pc = "loop"

====
